---- MODULE Spec2Model ----
(***************************************************************************)
(* Interactive manipulation engine of the 3D scene editor (src/main.py):   *)
(* the ObjectManager registry and its selection, the Move / Rotate / Scale *)
(* gizmos, the tool state machine of VTKWidget and the scene list of the   *)
(* RightPanel.                                                             *)
(*                                                                         *)
(* Actors are numbered in creation order.  Opacities are in tenths         *)
(* (1.0 is 10, 0.3 is 3).  Python's None is the empty set for an actor     *)
(* reference and the string "None" for a tool or an axis name.             *)
(***************************************************************************)
EXTENDS Integers, Sequences, FiniteSets, TLC

\* Number of actors ever created in one run.
MaxObjs == 2

\* Number of direct show() / hide() calls in one run of SpecGizmo.
MaxGizmoCalls == 4

\* Number of pointer moves handled as drag steps in one run.
MaxDragSteps == 2

\* Height of the renderer in pixels.
RendererHeight == 7

Objs == 1..MaxObjs

Kinds == {"primitive", "camera", "light"}

\* The scene is built in this order: a primitive, a camera, a light, ...
KindOrder == <<"primitive", "camera", "light">>

KindOf(n) == KindOrder[((n - 1) % Len(KindOrder)) + 1]

Tools == {"select", "box_select", "move", "rotate", "scale", "measure"}

\* The tools under which the registry is called directly: one without a
\* gizmo and the three with one.
RegistryTools == {"select", "move", "rotate", "scale"}

GizmoNames == {"move", "rotate", "scale"}

Axes == {"x", "y", "z"}

\* Scales are in ten-thousandths (1.0 is 10000), angles in half degrees,
\* positions of actors in hundredths of a world unit.
\* Default position of a CameraObject, (0, 5, 15).
CameraPosition == <<0, 500, 1500>>

\* Default position of a light icon, (0, 5, 0).
LightPosition == <<0, 500, 0>>

\* Position that _create_sun_light passes for its icon, (0, 10, 0).
SunLightPosition == <<0, 1000, 0>>

\* Distance of the focal point that move_object gives a moved camera, 10.
LookAhead == 1000

\* Scale of a new vtkActor.
DefaultScale == 10000

\* Scale set on the icon actor of a light.
LightScale == 15000

\* Scale that _create_sun_light sets on its icon afterwards, 3.0.
SunLightScale == 30000

\* Smallest scale component handle_scale_drag lets through (0.1).
ScaleFloor == 1000

\* Opacity set on a primitive by finalize_object_creation.
PrimitiveOpacity == 10

\* Opacity set on the pyramid actor of a camera.
CameraOpacity == 3

\* Opacity of a light icon: _add_icon_actor sets none, vtkProperty starts at 1.0.
LightOpacity == 10

\* Opacity MoveGizmo.show gives its target.
MoveDimOpacity == 3

\* Opacity RotateGizmo.show gives its target.
RotateDimOpacity == 2

\* Opacity ScaleGizmo.show gives its target.
ScaleDimOpacity == 3

VARIABLES
    actors,             \* ObjectManager.actors
    kinds,              \* kind of every actor created so far, by actor number
    opacity,            \* actor.GetProperty().GetOpacity(), by actor number
    selected_actors,    \* ObjectManager.selected_actors
    outline_actors,     \* keys of ObjectManager.outline_actors
    outline_visible,    \* actors whose outline actor has VisibilityOn
    gizmo,              \* move_gizmo, rotate_gizmo, scale_gizmo
    active_gizmo,       \* ObjectManager.active_gizmo
    transforms,         \* position, scale and orientation of every actor and
                        \* its outline, and the CameraObject of a camera
    gizmo_position,     \* position of the handles of every gizmo
    current_tool,       \* VTKWidget.current_tool (and LeftToolbar.current_tool)
    drag,               \* drag flags and axes of VTKWidget
    buttons,            \* mouse buttons the host currently holds down
    updates_paused,     \* TransformWidget.updates_paused
    transform_widget,   \* TransformWidget.selected_actor and the text of its fields
    measurement_tool,   \* fields of MeasurementTool
    scene_items,        \* keys of RightPanel.scene_items
    gizmo_calls,        \* number of direct show() / hide() calls so far
    drag_steps,         \* number of pointer moves and wheel turns handled so far
    camera,             \* VTKWidget.camera_theta, camera_phi, camera_radius, rotation_pivot
    pick_query,         \* the last call of get_world_position_from_mouse and its result
    last                \* the call that produced this state

registry == <<actors, kinds, opacity, selected_actors, outline_actors,
              outline_visible, gizmo, active_gizmo, transforms,
              gizmo_position>>

controller == <<current_tool, drag, buttons, updates_paused, transform_widget,
                measurement_tool>>

others == <<scene_items, gizmo_calls, drag_steps, camera, pick_query>>

vars == <<actors, kinds, opacity, selected_actors, outline_actors,
          outline_visible, gizmo, active_gizmo, current_tool, drag, buttons,
          updates_paused, transform_widget, measurement_tool, scene_items,
          gizmo_calls, last, transforms, drag_steps, camera,
          pick_query, gizmo_position>>

----------------------------------------------------------------------------
(* Python list helpers *)

Range(s) == {s[i] : i \in 1..Len(s)}

\* a in s
Contains(s, a) == \E i \in 1..Len(s) : s[i] = a

\* s.remove(a): drops the first occurrence of a
ListRemove(s, a) ==
    IF ~Contains(s, a) THEN s
    ELSE LET k == CHOOSE i \in 1..Len(s) :
                      s[i] = a /\ \A j \in 1..(i - 1) : s[j] # a
         IN  SubSeq(s, 1, k - 1) \o SubSeq(s, k + 1, Len(s))

\* s without a, order kept
Without(s, a) == SelectSeq(s, LAMBDA x : x # a)

NoDuplicates(s) == \A i, j \in 1..Len(s) : s[i] = s[j] => i = j

\* d[k] = v on a dict
DictSet(d, k, v) ==
    [x \in (DOMAIN d) \cup {k} |-> IF x = k THEN v ELSE d[x]]

EmptyDict == [x \in {} |-> 0]

----------------------------------------------------------------------------
(* The registry and gizmo state as one value, so that a handler is the     *)
(* composition of the calls it makes.                                      *)

Cur ==
    [actors |-> actors, kinds |-> kinds, opacity |-> opacity,
     selected_actors |-> selected_actors, outline_actors |-> outline_actors,
     outline_visible |-> outline_visible, gizmo |-> gizmo,
     active_gizmo |-> active_gizmo, transforms |-> transforms,
     gizmo_position |-> gizmo_position]

Apply(S) ==
    /\ actors' = S.actors
    /\ kinds' = S.kinds
    /\ opacity' = S.opacity
    /\ selected_actors' = S.selected_actors
    /\ outline_actors' = S.outline_actors
    /\ outline_visible' = S.outline_visible
    /\ gizmo' = S.gizmo
    /\ active_gizmo' = S.active_gizmo
    /\ transforms' = S.transforms
    /\ gizmo_position' = S.gizmo_position

Log(call) == last' = call

Call(op, actor, multi, arg) ==
    [op |-> op, actor |-> actor, multi |-> multi, arg |-> arg]

NoCall == Call("init", {}, FALSE, "None")

----------------------------------------------------------------------------
(* Gizmos: MoveGizmo, RotateGizmo and ScaleGizmo have the same show/hide.   *)

HiddenGizmo ==
    [is_visible |-> FALSE, selected_actor |-> {},
     original_opacities |-> EmptyDict]

DimOpacity(g) ==
    IF g = "move" THEN MoveDimOpacity
    ELSE IF g = "rotate" THEN RotateDimOpacity
    ELSE ScaleDimOpacity

\* show(target_actor), target_actor an actor (never None at any call site)
GizmoShow(S, g, target) ==
    LET G == S.gizmo[g]
    IN  [S EXCEPT
            !.opacity = [S.opacity EXCEPT ![target] = DimOpacity(g)],
            !.gizmo_position[g] = S.transforms[target].position,
            !.gizmo = [S.gizmo EXCEPT ![g] =
                [is_visible |-> TRUE, selected_actor |-> {target},
                 original_opacities |->
                     DictSet(G.original_opacities, target,
                             S.opacity[target])]]]

\* hide() that puts every dimmed actor back to the default opacity 1.0
GizmoHideDefault(S, g) ==
    LET orig == S.gizmo[g].original_opacities
    IN  [S EXCEPT
            !.opacity = [o \in DOMAIN S.opacity |->
                            IF o \in DOMAIN orig THEN PrimitiveOpacity
                            ELSE S.opacity[o]],
            !.gizmo = [S.gizmo EXCEPT ![g] = HiddenGizmo]]

\* hide()
GizmoHide(S, g) ==
    LET orig == S.gizmo[g].original_opacities
    IN  [S EXCEPT
            !.opacity = [o \in DOMAIN S.opacity |->
                            IF o \in DOMAIN orig THEN orig[o]
                            ELSE S.opacity[o]],
            !.gizmo = [S.gizmo EXCEPT ![g] = HiddenGizmo]]

\* the three hide() calls of deselect_all and set_active_tool, in their order
HideAllGizmos(S) == GizmoHide(GizmoHide(GizmoHide(S, "move"), "rotate"), "scale")

----------------------------------------------------------------------------
(* ObjectManager *)

\* deselect_object(actor) that leaves the outline of the actor shown
deselect_object_keep_outline(S, actor) ==
    [S EXCEPT !.selected_actors = ListRemove(S.selected_actors, actor)]

\* deselect_object(actor)
deselect_object(S, actor) ==
    [S EXCEPT
        !.selected_actors = ListRemove(S.selected_actors, actor),
        !.outline_visible =
            IF actor \in S.outline_actors
            THEN S.outline_visible \ {actor} ELSE S.outline_visible]

\* deselect_all() that leaves the outlines as they are
deselect_all_keep_outlines(S) ==
    [HideAllGizmos(S) EXCEPT !.selected_actors = <<>>]

\* deselect_all()
deselect_all(S) ==
    LET H == HideAllGizmos(S)
    IN  [H EXCEPT
            !.outline_visible =
                H.outline_visible \ (Range(H.selected_actors) \cap H.outline_actors),
            !.selected_actors = <<>>]

\* the tail of select_object: show the gizmo of the active tool
ShowActiveGizmo(S) ==
    IF S.selected_actors # <<>> /\ S.active_gizmo # "None"
         /\ S.active_gizmo \in GizmoNames
    THEN GizmoShow(S, S.active_gizmo, S.selected_actors[1])
    ELSE S

\* update_outline_position(actor): the outline takes the actor's orientation
update_outline_position(S, actor) ==
    IF actor \in S.outline_actors
    THEN [S EXCEPT !.transforms[actor].outline_position =
                       S.transforms[actor].position,
                   !.transforms[actor].outline_orientation =
                       S.transforms[actor].orientation]
    ELSE S

\* the outline of a newly selected actor is shown and put on the actor
ShowOutline(S, actor) ==
    IF actor \in S.outline_actors
    THEN update_outline_position(
             [S EXCEPT !.outline_visible = S.outline_visible \cup {actor}],
             actor)
    ELSE S

\* select_object whose single selection does not clear the previous one
select_object_no_clear(S, actor, multi_select) ==
    LET T ==
          IF multi_select /\ Contains(S.selected_actors, actor)
          THEN deselect_object(S, actor)
          ELSE ShowOutline(
                   [S EXCEPT !.selected_actors = Append(S.selected_actors, actor)],
                   actor)
    IN  ShowActiveGizmo(T)

\* select_object whose shift-click always appends
select_object_no_toggle(S, actor, multi_select) ==
    LET T ==
          IF multi_select
          THEN ShowOutline(
                   [S EXCEPT !.selected_actors = Append(S.selected_actors, actor)],
                   actor)
          ELSE ShowOutline(
                   [deselect_all(S) EXCEPT !.selected_actors = <<actor>>],
                   actor)
    IN  ShowActiveGizmo(T)

\* select_object(actor, multi_select), the later definition that Python keeps
select_object(S, actor, multi_select) ==
    LET T ==
          IF multi_select /\ Contains(S.selected_actors, actor)
          THEN deselect_object(S, actor)
          ELSE IF multi_select
          THEN ShowOutline(
                   [S EXCEPT !.selected_actors = Append(S.selected_actors, actor)],
                   actor)
          ELSE ShowOutline(
                   [deselect_all(S) EXCEPT !.selected_actors = <<actor>>],
                   actor)
    IN  ShowActiveGizmo(T)

\* create_outline(actor): the outline starts hidden
create_outline(S, actor) ==
    [S EXCEPT !.outline_actors = S.outline_actors \cup {actor},
              !.outline_visible = S.outline_visible \ {actor},
              !.transforms[actor].outline_position =
                  S.transforms[actor].position,
              !.transforms[actor].outline_scale = S.transforms[actor].scale,
              !.transforms[actor].outline_orientation =
                  S.transforms[actor].orientation]

\* clear_objects()
clear_objects(S) ==
    [S EXCEPT !.outline_actors = {},
              !.outline_visible = {},
              !.actors = <<>>,
              !.selected_actors = <<>>]

\* set_active_tool that shows the gizmo without hiding the others first
set_active_tool_no_hide(S, tool_name) ==
    LET A == [S EXCEPT !.active_gizmo = tool_name]
    IN  IF A.selected_actors # <<>> /\ tool_name \in GizmoNames
        THEN GizmoShow(A, tool_name, A.selected_actors[1])
        ELSE A

\* set_active_tool(tool_name)
set_active_tool(S, tool_name) ==
    LET H == HideAllGizmos([S EXCEPT !.active_gizmo = tool_name])
    IN  IF H.selected_actors # <<>> /\ tool_name \in GizmoNames
        THEN GizmoShow(H, tool_name, H.selected_actors[1])
        ELSE H

InitialScale(kind) ==
    IF kind = "light" THEN <<LightScale, LightScale, LightScale>>
    ELSE <<DefaultScale, DefaultScale, DefaultScale>>

\* positions are in hundredths of a world unit
InitialPosition(kind) ==
    IF kind = "camera" THEN CameraPosition
    ELSE IF kind = "light" THEN LightPosition
    ELSE <<0, 0, 0>>

\* CameraObject.__init__: position and focal_point; none for other kinds
InitialCameraObject(kind) ==
    IF kind = "camera"
    THEN {[position |-> CameraPosition, focal_point |-> <<0, 0, 0>>]}
    ELSE {}

\* LightManager._create_point_light: _update_point_light puts the vtkLight at
\* the position of its icon; none for other kinds
InitialLightPosition(kind) ==
    IF kind = "light" THEN {LightPosition} ELSE {}

\* transform of a new actor; its outline does not exist yet
InitialTransform(kind) ==
    [position |-> InitialPosition(kind),
     scale |-> InitialScale(kind), orientation |-> <<0, 0, 0>>,
     outline_position |-> InitialPosition(kind),
     outline_scale |-> InitialScale(kind), outline_orientation |-> <<0, 0, 0>>,
     camera_object |-> InitialCameraObject(kind),
     light_position |-> InitialLightPosition(kind)]

InitialOpacity(kind) ==
    IF kind = "primitive" THEN PrimitiveOpacity
    ELSE IF kind = "camera" THEN CameraOpacity
    ELSE LightOpacity

\* finalize_object_creation / create_camera / add_external_model:
\* register the new actor, give it an outline and select it
create_object(S, kind) ==
    LET actor == Len(S.kinds) + 1
        R == [S EXCEPT !.actors = Append(S.actors, actor),
                       !.kinds = Append(S.kinds, kind),
                       !.opacity = Append(S.opacity, InitialOpacity(kind)),
                       !.transforms = Append(S.transforms, InitialTransform(kind))]
    IN  select_object(create_outline(R, actor), actor, FALSE)

\* _create_sun_light: _add_icon_actor at (0, 10, 0) with scale 1.5, which
\* registers the icon, creates its outline and selects it; then SetScale(3.0)
\* on the icon alone
create_sun_light(S) ==
    LET actor == Len(S.kinds) + 1
        icon == [InitialTransform("light") EXCEPT
                    !.position = SunLightPosition,
                    !.outline_position = SunLightPosition,
                    !.light_position = {SunLightPosition}]
        R == [S EXCEPT !.actors = Append(S.actors, actor),
                       !.kinds = Append(S.kinds, "light"),
                       !.opacity = Append(S.opacity, InitialOpacity("light")),
                       !.transforms = Append(S.transforms, icon)]
        T == select_object(create_outline(R, actor), actor, FALSE)
    IN  [T EXCEPT !.transforms[actor].scale =
                      <<SunLightScale, SunLightScale, SunLightScale>>]

\* actors the renderer holds: light icons are never added to it
InRenderer(S) == {a \in Range(S.actors) : S.kinds[a] # "light"}

----------------------------------------------------------------------------
(* TransformWidget *)

\* no actor and nine empty fields
EmptyFields ==
    [selected_actor |-> {}, location |-> <<>>, rotation |-> <<>>,
     scale |-> <<>>]

\* f"{value:.3f}" of a scale component: thousandths, from ten-thousandths
ThreeDecimals(x) == (x + 5) \div 10

\* the text that update_from_selection writes for an actor; locations are
\* hundredths and rotations half degrees, which three decimals show exactly
FieldsOf(S, actor) ==
    [selected_actor |-> {actor},
     location |-> S.transforms[actor].position,
     rotation |-> S.transforms[actor].orientation,
     scale |-> [i \in 1..3 |-> ThreeDecimals(S.transforms[actor].scale[i])]]

\* update_from_selection() that does not look at updates_paused
update_from_selection_always(W, S, paused) ==
    IF S.selected_actors = <<>> THEN EmptyFields
    ELSE FieldsOf(S, S.selected_actors[1])

\* update_from_selection(): nothing while paused; empty fields without a
\* selection; else the transform of the first selected actor
update_from_selection(W, S, paused) ==
    IF paused THEN W
    ELSE IF S.selected_actors = <<>> THEN EmptyFields
    ELSE FieldsOf(S, S.selected_actors[1])

----------------------------------------------------------------------------
(* MeasurementTool *)

\* clear_measurements()
clear_measurements(m) ==
    [m EXCEPT !.points = <<>>, !.actors = <<>>,
              !.is_dragging_new_point = FALSE]

\* activate() that keeps the points and markers of the last measurement
activate_no_clear(m) ==
    [m EXCEPT !.is_active = TRUE, !.measurement_mode = "distance"]

\* activate()
activate(m) ==
    clear_measurements([m EXCEPT !.is_active = TRUE,
                                 !.measurement_mode = "distance"])

\* deactivate()
deactivate(m) ==
    [m EXCEPT !.is_active = FALSE, !.measurement_mode = "None",
              !.dragging_point = {}, !.is_dragging_new_point = FALSE]

\* World positions are triples in tenths of a world unit.
Origin == <<0, 0, 0>>

NearOrigin == <<0, 0, 3>>

Far == <<30, 40, 0>>

WorldPositions == {Origin, NearOrigin, Far}

\* get_point_at_position: tolerance=0.5, in tenths
Tolerance == 5

\* squared distance, in hundredths of a square unit
Dist2(a, b) ==
    (b[1] - a[1]) * (b[1] - a[1]) + (b[2] - a[2]) * (b[2] - a[2])
        + (b[3] - a[3]) * (b[3] - a[3])

\* f"{distance:.2f}" of math.sqrt(...): the distance in hundredths, rounded
\* to the nearest
FormatDistance(d2) ==
    CHOOSE n \in 0..(10 * d2 + 1) :
        /\ n = 0 \/ (2 * n - 1) * (2 * n - 1) <= 400 * d2
        /\ 400 * d2 < (2 * n + 1) * (2 * n + 1)

\* a distance text computed in the XY plane only
DistanceTextXY(point1, point2) ==
    FormatDistance((point2[1] - point1[1]) * (point2[1] - point1[1])
                   + (point2[2] - point1[2]) * (point2[2] - point1[2]))

\* the text of create_distance_text(point1, point2)
DistanceText(point1, point2) == FormatDistance(Dist2(point1, point2))

\* the text of update_temporary_measurement, computed from world_pos to points[0]
TemporaryText(point, world_pos) == FormatDistance(Dist2(world_pos, point))

\* an actor of the measurement tool: a sphere, a line or a text
Marker(kind, a, b, text, is_temporary) ==
    [kind |-> kind, a |-> a, b |-> b, text |-> text,
     is_temporary |-> is_temporary]

\* abs(dot_DN) must exceed this for the plane intersection; dot products
\* are in ten-millionths
Epsilon == 10

\* values of dot_DN, the ray direction times the plane normal
DotProducts == {-20, 0, 10, 20}

\* signs of the ray parameter t of the intersection
RayParameters == {-1, 0, 1}

Abs(x) == IF x >= 0 THEN x ELSE -x

\* the values get_world_position_from_mouse works from: the renderer has a
\* size, the position of vtkWorldPointPicker, and the ray and plane figures
PickQueries ==
    [size_ok : BOOLEAN, pick_pos : WorldPositions, dot_DN : DotProducts,
     t : RayParameters, intersection_point : WorldPositions,
     fallback_point : WorldPositions]

\* picker.GetPickPosition() != [0, 0, 0]: a tuple never equals a list
PickPositionDiffers(pick_pos) == TRUE

\* the plane intersection method: the intersection in front of the camera,
\* else a point along the view direction
PlaneIntersection(q) ==
    IF Abs(q.dot_DN) > Epsilon /\ q.t >= 0 THEN q.intersection_point
    ELSE q.fallback_point

\* get_world_position_from_mouse that fails on a ray parallel to the plane
WorldPositionOrFail(q) ==
    IF ~q.size_ok THEN {}
    ELSE IF PickPositionDiffers(q.pick_pos) /\ Abs(q.dot_DN) > Epsilon
    THEN {q.pick_pos}
    ELSE {}

\* get_world_position_from_mouse(mouse_x, mouse_y), every branch of it
WorldPosition(q) ==
    IF ~q.size_ok THEN {}
    ELSE IF PickPositionDiffers(q.pick_pos) THEN {q.pick_pos}
    ELSE {PlaneIntersection(q)}

\* who calls MeasurementTool.get_world_position_from_mouse: the measurement
\* tool for a click, handle_move_start and handle_move_drag for a free move
Callers == {"measure", "free_move"}

\* widget positions of the pointer, (x, y) in pixels, y downwards
MousePositions == {<<x, y>> : x \in {0, 1}, y \in 0..RendererHeight}

\* the (mouse_x, mouse_y) a caller passes: the measurement tool passes the
\* widget position, the free move passes (x, renderer_size[1] - y)
CallerArguments(caller, mouse) ==
    IF caller = "free_move" THEN <<mouse[1], RendererHeight - mouse[2]>>
    ELSE mouse

\* display_x = mouse_x; display_y = renderer_size[1] - mouse_y  (Flip Y)
DisplayPoint(arguments) == <<arguments[1], RendererHeight - arguments[2]>>

\* no call of get_world_position_from_mouse yet
NoQuery ==
    [size_ok |-> FALSE, pick_pos |-> Origin, dot_DN |-> 0, t |-> 0,
     intersection_point |-> Origin, fallback_point |-> Origin,
     result |-> {}, done |-> FALSE, caller |-> "measure", mouse |-> <<0, 0>>,
     display |-> <<0, 0>>]

\* get_world_position_from_mouse: None only when the renderer has no size
get_world_position_from_mouse(position, size_ok) ==
    IF size_ok THEN {position} ELSE {}

\* get_point_at_position that only finds a point at the very same position
get_point_at_position_exact(m, world_pos) ==
    LET near == {i \in 1..Len(m.points) : m.points[i] = world_pos}
    IN  IF near = {} THEN {}
        ELSE {(CHOOSE i \in near : \A j \in near : i <= j) - 1}

\* get_point_at_position(world_pos): index of the first point within tolerance
get_point_at_position(m, world_pos) ==
    LET near == {i \in 1..Len(m.points) :
                     Dist2(m.points[i], world_pos) < Tolerance * Tolerance}
    IN  IF near = {} THEN {}
        ELSE {(CHOOSE i \in near : \A j \in near : i <= j) - 1}

\* create_sphere(position)
create_sphere(m, position) ==
    [m EXCEPT !.actors = Append(m.actors,
                  Marker("sphere", position, position, {}, FALSE))]

\* create_line(point1, point2)
create_line(m, point1, point2, is_temporary) ==
    [m EXCEPT !.actors = Append(m.actors,
                  Marker("line", point1, point2, {}, is_temporary))]

\* create_distance_text(point1, point2)
create_distance_text(m, point1, point2) ==
    [m EXCEPT !.actors = Append(m.actors,
                  Marker("text", point1, point2,
                         {DistanceText(point1, point2)}, FALSE))]

\* update_temporary_measurement(world_pos)
update_temporary_measurement(m, world_pos) ==
    LET kept == [m EXCEPT !.actors =
                     SelectSeq(m.actors, LAMBDA x : ~x.is_temporary)]
    IN  IF Len(kept.points) = 1
        THEN LET l == create_line(kept, kept.points[1], world_pos, TRUE)
             IN  [l EXCEPT !.actors = Append(l.actors,
                      Marker("text", kept.points[1], world_pos,
                             {TemporaryText(kept.points[1], world_pos)}, TRUE))]
        ELSE kept

\* update_visualization()
update_visualization(m) ==
    LET kept == [m EXCEPT !.actors =
                     SelectSeq(m.actors, LAMBDA x : x.kind = "sphere")]
    IN  IF Len(kept.points) >= 2
        THEN create_distance_text(
                 create_line(kept, kept.points[1], kept.points[2], FALSE),
                 kept.points[1], kept.points[2])
        ELSE kept

\* the second point with its sphere, line and text
PlaceSecondPoint(m, position) ==
    LET a == [m EXCEPT !.points = Append(m.points, position)]
        b == create_sphere(a, position)
        c == create_line(b, b.points[1], b.points[2], FALSE)
    IN  create_distance_text(c, c.points[1], c.points[2])

\* the first point with its sphere, armed for the drag of the second
PlaceFirstPoint(m, position) ==
    LET a == [m EXCEPT !.points = Append(m.points, position)]
        b == create_sphere(a, position)
    IN  [b EXCEPT !.is_dragging_new_point = TRUE, !.dragging_point = {1}]

\* handle_click that places a third point instead of starting over
handle_click_no_restart(m, world_pos) ==
    IF ~m.is_active \/ world_pos = {} THEN m
    ELSE LET position == CHOOSE x \in world_pos : TRUE
             point_idx == get_point_at_position(m, position)
         IN  IF point_idx # {}
             THEN [m EXCEPT !.dragging_point = point_idx]
             ELSE IF Len(m.points) = 0 THEN PlaceFirstPoint(m, position)
             ELSE IF Len(m.points) = 1 THEN PlaceSecondPoint(m, position)
             ELSE PlaceFirstPoint(m, position)

\* handle_click(mouse_x, mouse_y)
handle_click(m, world_pos) ==
    IF ~m.is_active \/ world_pos = {} THEN m
    ELSE LET position == CHOOSE x \in world_pos : TRUE
             point_idx == get_point_at_position(m, position)
         IN  IF point_idx # {}
             THEN [m EXCEPT !.dragging_point = point_idx]
             ELSE IF Len(m.points) = 0 THEN PlaceFirstPoint(m, position)
             ELSE IF Len(m.points) = 1 THEN PlaceSecondPoint(m, position)
             ELSE PlaceFirstPoint(clear_measurements(m), position)

\* the value handle_click returns
handle_click_handled(m, world_pos) == m.is_active /\ world_pos # {}

\* handle_drag that commits the pointer position as the second point
handle_drag_commit(m, world_pos) ==
    IF ~m.is_active \/ world_pos = {} THEN m
    ELSE LET position == CHOOSE x \in world_pos : TRUE
         IN  IF m.is_dragging_new_point /\ Len(m.points) = 1
             THEN PlaceSecondPoint(m, position)
             ELSE m

\* handle_drag(mouse_x, mouse_y); an index past the end of points raises
\* IndexError and leaves the tool as it was
handle_drag(m, world_pos) ==
    IF ~m.is_active \/ world_pos = {} THEN m
    ELSE LET position == CHOOSE x \in world_pos : TRUE
         IN  IF m.is_dragging_new_point
             THEN IF Len(m.points) = 1
                  THEN update_temporary_measurement(m, position)
                  ELSE m
             ELSE IF m.dragging_point # {}
             THEN LET i == (CHOOSE x \in m.dragging_point : TRUE) + 1
                  IN  IF i <= Len(m.points)
                      THEN update_visualization(
                               [m EXCEPT !.points[i] = position])
                      ELSE m
             ELSE m

\* handle_release(mouse_x, mouse_y)
handle_release(m, world_pos) ==
    IF ~m.is_active \/ world_pos = {} THEN m
    ELSE LET position == CHOOSE x \in world_pos : TRUE
             placed == IF m.is_dragging_new_point /\ Len(m.points) = 1
                       THEN PlaceSecondPoint(m, position)
                       ELSE m
         IN  [placed EXCEPT !.is_dragging_new_point = FALSE,
                            !.dragging_point = {}]

----------------------------------------------------------------------------
(* VTKWidget: tool changes *)

\* the gizmo calls of on_tool_changed before it calls set_active_tool
ToolBranch(S, tool_name) ==
    IF tool_name \in {"select", "box_select"}
    THEN GizmoHide(GizmoHide(S, "move"), "rotate")
    ELSE IF tool_name = "move"
    THEN LET H == GizmoHide(S, "rotate")
         IN  IF H.selected_actors # <<>>
             THEN GizmoShow(H, "move", H.selected_actors[1]) ELSE H
    ELSE IF tool_name = "rotate"
    THEN LET H == GizmoHide(S, "move")
         IN  IF H.selected_actors # <<>>
             THEN GizmoShow(H, "rotate", H.selected_actors[1]) ELSE H
    ELSE IF tool_name = "measure"
    THEN HideAllGizmos(S)
    ELSE S

\* on_tool_changed(tool_name), the later definition: its effect on the registry
on_tool_changed(S, tool_name) == set_active_tool(ToolBranch(S, tool_name), tool_name)

\* on_tool_changed(tool_name): its effect on the measurement tool
on_tool_changed_measure(m, tool_name) ==
    IF tool_name # "measure" THEN deactivate(m) ELSE activate(m)

----------------------------------------------------------------------------
(* VTKWidget: pointer presses.  A pick is what vtkPropPicker returns at the *)
(* pointer: nothing that counts, an actor of the renderer, or a handle of a *)
(* gizmo that is shown.                                                     *)

HandleNames(g) == IF g = "scale" THEN Axes \cup {"uniform"} ELSE Axes

NoPick == [actor |-> {}, gizmo |-> "None", axis |-> "None"]

Picks(S) ==
    {NoPick}
    \cup {[actor |-> {a}, gizmo |-> "None", axis |-> "None"] : a \in InRenderer(S)}
    \cup UNION {{[actor |-> {}, gizmo |-> g, axis |-> h] : h \in HandleNames(g)} :
                   g \in {x \in GizmoNames : S.gizmo[x].is_visible}}

\* the picks, and those where a handle of a shown gizmo lies in front of an
\* actor: the gizmo's picker returns the handle, the registry's the actor
PressPicks(S) ==
    Picks(S)
    \cup {[actor |-> {a}, gizmo |-> g, axis |-> h] :
             a \in InRenderer(S),
             g \in {x \in GizmoNames : S.gizmo[x].is_visible},
             h \in Axes}

\* get_axis_at_position(x, y) of gizmo g
get_axis_at_position(S, g, pick) ==
    IF S.gizmo[g].is_visible /\ pick.gizmo = g /\ pick.axis \in HandleNames(g)
    THEN pick.axis ELSE "None"

\* get_object_at_position(x, y)
get_object_at_position(S, pick) ==
    {a \in pick.actor : Contains(S.actors, a)}

\* handle_object_selection(mouse_pos, multi_select)
handle_object_selection(S, pick, multi_select, size_ok) ==
    IF S.actors = <<>> \/ ~size_ok THEN S
    ELSE LET picked == get_object_at_position(S, pick)
         IN  IF picked # {}
             THEN select_object(S, CHOOSE a \in picked : TRUE, multi_select)
             ELSE IF ~multi_select THEN deselect_all(S) ELSE S

NoDrag ==
    [is_moving |-> FALSE, move_axis |-> "None",
     is_rotating_object |-> FALSE, rotate_axis |-> "None",
     is_scaling |-> FALSE, scale_axis |-> "None",
     is_box_selecting |-> FALSE, is_rotating_view |-> FALSE,
     original_scale |-> <<DefaultScale, DefaultScale, DefaultScale>>,
     free_move_actor_start |-> {}]

\* handle_move_start: TRUE when a gizmo drag or a free move starts
MoveStarts(S, pick, size_ok) ==
    /\ size_ok
    /\ \/ get_axis_at_position(S, "move", pick) # "None" /\ S.selected_actors # <<>>
       \/ \E a \in get_object_at_position(S, pick) : Contains(S.selected_actors, a)

\* handle_rotate_start: TRUE when a ring drag starts
RotateStarts(S, pick, size_ok) ==
    size_ok /\ get_axis_at_position(S, "rotate", pick) # "None"
            /\ S.selected_actors # <<>>

\* handle_scale_start: TRUE when a handle drag starts
ScaleStarts(S, pick, size_ok) ==
    size_ok /\ get_axis_at_position(S, "scale", pick) # "None"
            /\ S.selected_actors # <<>>

\* a press that goes to handle_object_selection whatever the pointer hits
PressRegistry_selection_only(S, tool, pick, shift, size_ok) ==
    handle_object_selection(S, pick, shift /\ tool = "select", size_ok)

\* mousePressEvent, left button: the registry after the press
PressRegistry(S, tool, pick, shift, size_ok) ==
    IF tool = "select" THEN handle_object_selection(S, pick, shift, size_ok)
    ELSE IF tool = "move"
    THEN IF ~size_ok \/ MoveStarts(S, pick, size_ok) THEN S
         ELSE handle_object_selection(S, pick, FALSE, size_ok)
    ELSE IF tool = "rotate"
    THEN IF ~size_ok \/ RotateStarts(S, pick, size_ok) THEN S
         ELSE handle_object_selection(S, pick, FALSE, size_ok)
    ELSE IF tool = "scale"
    THEN IF ~size_ok \/ ScaleStarts(S, pick, size_ok) THEN S
         ELSE handle_object_selection(S, pick, FALSE, size_ok)
    ELSE S

\* mousePressEvent, left button: the drag flags after the press
PressDrag(S, d, tool, pick, size_ok) ==
    IF tool = "move" /\ MoveStarts(S, pick, size_ok)
    THEN [d EXCEPT !.is_moving = TRUE,
                   !.move_axis = IF S.selected_actors # <<>>
                                 THEN get_axis_at_position(S, "move", pick)
                                 ELSE "None",
                   !.free_move_actor_start =
                       IF S.selected_actors # <<>>
                          /\ get_axis_at_position(S, "move", pick) # "None"
                       THEN {}
                       ELSE {S.transforms[a].position :
                                a \in get_object_at_position(S, pick)}]
    ELSE IF tool = "rotate" /\ RotateStarts(S, pick, size_ok)
    THEN [d EXCEPT !.is_rotating_object = TRUE,
                   !.rotate_axis = get_axis_at_position(S, "rotate", pick)]
    ELSE IF tool = "scale" /\ ScaleStarts(S, pick, size_ok)
    THEN [d EXCEPT !.is_scaling = TRUE,
                   !.scale_axis = get_axis_at_position(S, "scale", pick),
                   !.original_scale = S.transforms[S.selected_actors[1]].scale]
    ELSE IF tool = "box_select"
    THEN [d EXCEPT !.is_box_selecting = TRUE]
    ELSE d

\* end_box_selection(pos), the later definition that Python keeps: the
\* rectangle is computed and shown in the status bar; inside is the set of
\* registered objects within it, which the handler does not look at
end_box_selection(S, inside) == S

\* mouseReleaseEvent, left button: the drag flags after the release
ReleaseDrag(d) ==
    IF d.is_scaling
    THEN [d EXCEPT !.is_scaling = FALSE, !.scale_axis = "None"]
    ELSE IF d.is_moving
    THEN [d EXCEPT !.is_moving = FALSE, !.move_axis = "None",
                   !.free_move_actor_start = {}]
    ELSE IF d.is_rotating_object
    THEN [d EXCEPT !.is_rotating_object = FALSE, !.rotate_axis = "None"]
    ELSE IF d.is_box_selecting
    THEN [d EXCEPT !.is_box_selecting = FALSE]
    ELSE d

\* displacements of the pointer since the previous move step, in pixels;
\* one pixel moves the object by 0.01 world units
MoveDisplacements == {-500, 500}

\* the deltas given to move_object
ObjectDeltas == {<<0, -500, 0>>, <<0, 0, -500>>, <<500, 0, 0>>}

\* displacements of the world point under the pointer since the press
FreeMoveDeltas == {<<0, 0, 0>>, <<100, 0, 0>>}

Plus(a, b) == <<a[1] + b[1], a[2] + b[2], a[3] + b[3]>>

Minus(a, b) == <<a[1] - b[1], a[2] - b[2], a[3] - b[3]>>

Norm2(v) == v[1] * v[1] + v[2] * v[2] + v[3] * v[3]

\* no vector is longer than the sum of its components' sizes
Lengths(v) == 0..(Abs(v[1]) + Abs(v[2]) + Abs(v[3]))

\* math.sqrt(Norm2(v)), for a vector of whole length
Length(v) == CHOOSE n \in Lengths(v) : n * n = Norm2(v)

\* TRUE when the unit vector along v, times the look-ahead, is a whole
\* number of hundredths in every component
ExactDirection(v) ==
    /\ \E n \in Lengths(v) : n * n = Norm2(v)
    /\ Norm2(v) > 0 =>
           \A i \in 1..3 : (v[i] * LookAhead) % Length(v) = 0

\* get_view_direction() times the look-ahead distance
ViewDirection(cam) ==
    LET v == Minus(cam.focal_point, cam.position)
    IN  IF Norm2(v) > 0
        THEN [i \in 1..3 |-> (v[i] * LookAhead) \div Length(v)]
        ELSE <<0, 0, -LookAhead>>

\* the camera part of move_object: set_position, then set_focal_point with
\* the direction read after set_position
MoveCamera(cam, new_pos) ==
    LET moved == [cam EXCEPT !.position = new_pos]
    IN  [moved EXCEPT !.focal_point = Plus(new_pos, ViewDirection(moved))]

\* LightManager.sync_light_for_actor(actor): the vtkLight of a light icon is
\* put at the position of the icon; nothing for an actor that is no light
sync_light_for_actor(S, actor) ==
    [S EXCEPT !.transforms[actor].light_position =
                  {S.transforms[actor].position :
                      p \in S.transforms[actor].light_position}]

\* move_object(actor, delta_x, delta_y, delta_z), the later definition that
\* Python keeps
move_object(S, actor, delta) ==
    LET new_pos == Plus(S.transforms[actor].position, delta)
        T == update_outline_position(
                 [S EXCEPT !.transforms[actor].position = new_pos], actor)
    IN  sync_light_for_actor(
            [T EXCEPT !.transforms[actor].camera_object =
                          {MoveCamera(cam, new_pos) :
                              cam \in S.transforms[actor].camera_object}],
            actor)

\* update_position() of gizmo g
GizmoUpdatePosition(S, g) ==
    IF S.gizmo[g].is_visible /\ S.gizmo[g].selected_actor # {}
    THEN [S EXCEPT !.gizmo_position[g] =
              S.transforms[CHOOSE a \in S.gizmo[g].selected_actor : TRUE].position]
    ELSE S

\* the world displacement of an axis-constrained move step
WorldDelta(d, dx, dy) ==
    IF d.move_axis = "x" THEN <<-dx, 0, 0>>
    ELSE IF d.move_axis = "y" THEN <<0, dx, 0>>
    ELSE IF d.move_axis = "z" THEN <<0, 0, -dy>>
    ELSE <<0, 0, 0>>

\* the free-move branch of handle_move_drag
FreeMove(S, d, world_delta, size_ok) ==
    IF ~size_ok \/ d.free_move_actor_start = {} THEN S
    ELSE LET actor == S.selected_actors[1]
             new_pos == Plus(CHOOSE p \in d.free_move_actor_start : TRUE,
                             world_delta)
             T == IF actor \in S.outline_actors
                  THEN [S EXCEPT !.transforms[actor].position = new_pos,
                                 !.transforms[actor].outline_position = new_pos]
                  ELSE [S EXCEPT !.transforms[actor].position = new_pos]
         IN  GizmoUpdatePosition(T, "move")

\* handle_move_drag(mouse_pos); (dx, dy) is mouse_pos - move_start_point, and
\* move_start_point is moved to mouse_pos at the end of every axis step
handle_move_drag(S, d, dx, dy, world_delta, size_ok) ==
    IF ~d.is_moving \/ S.selected_actors = <<>> THEN S
    ELSE IF d.move_axis = "None" THEN FreeMove(S, d, world_delta, size_ok)
    ELSE GizmoUpdatePosition(
             move_object(S, S.selected_actors[1], WorldDelta(d, dx, dy)),
             "move")

\* horizontal displacements of the pointer since the press, in pixels
ScaleDisplacements == {-200, 50}

\* displacements of the pointer since the previous step, in pixels
RotateDisplacements == {-3, 4}

\* s * (1.0 + dx * 0.01)
Scaled(s, dx) == (s * (100 + dx)) \div 100

\* TRUE when Scaled(s, dx) is exact or falls below the floor anyway
ScaledExactly(s, dx) ==
    (s * (100 + dx)) % 100 = 0 \/ s * (100 + dx) < ScaleFloor * 100

Max(a, b) == IF a >= b THEN a ELSE b

\* the scale handle_scale_drag computes from original_scale, before the floor
NewScale(d, dx) ==
    [i \in 1..3 |->
        IF d.scale_axis = "uniform" \/ d.scale_axis = <<"x", "y", "z">>[i]
        THEN Scaled(d.original_scale[i], dx)
        ELSE d.original_scale[i]]

\* SetScale on the actor and, when it has one, on its outline
SetScale(S, actor, new_scale) ==
    IF actor \in S.outline_actors
    THEN [S EXCEPT !.transforms[actor].scale = new_scale,
                   !.transforms[actor].outline_scale = new_scale]
    ELSE [S EXCEPT !.transforms[actor].scale = new_scale]

\* handle_scale_drag that scales what the previous step left
handle_scale_drag_incremental(S, d, dx) ==
    IF ~d.is_scaling \/ S.selected_actors = <<>> THEN S
    ELSE LET now == [d EXCEPT !.original_scale =
                         S.transforms[S.selected_actors[1]].scale]
         IN  SetScale(S, S.selected_actors[1],
                      [i \in 1..3 |-> Max(ScaleFloor, NewScale(now, dx)[i])])

\* handle_scale_drag that applies no floor
handle_scale_drag_no_floor(S, d, dx) ==
    IF ~d.is_scaling \/ S.selected_actors = <<>> THEN S
    ELSE SetScale(S, S.selected_actors[1], NewScale(d, dx))

\* handle_scale_drag(mouse_pos); dx is mouse_pos.x() - scale_start_point.x()
handle_scale_drag(S, d, dx) ==
    IF ~d.is_scaling \/ S.selected_actors = <<>> THEN S
    ELSE SetScale(S, S.selected_actors[1],
                  [i \in 1..3 |-> Max(ScaleFloor, NewScale(d, dx)[i])])

\* the rotation handle_rotate_drag adds, in half degrees
RotationDelta(d, dx, dy) ==
    [i \in 1..3 |->
        IF d.rotate_axis = "x" /\ i = 1 THEN dy
        ELSE IF d.rotate_axis = "y" /\ i = 2 THEN dx
        ELSE IF d.rotate_axis = "z" /\ i = 3 THEN dx
        ELSE 0]

\* SetOrientation on the actor and, when it has one, on its outline
SetOrientation(S, actor, new_orientation) ==
    IF actor \in S.outline_actors
    THEN [S EXCEPT !.transforms[actor].orientation = new_orientation,
                   !.transforms[actor].outline_orientation = new_orientation]
    ELSE [S EXCEPT !.transforms[actor].orientation = new_orientation]

\* handle_rotate_drag that leaves the outline alone
handle_rotate_drag_no_outline(S, d, dx, dy) ==
    IF ~d.is_rotating_object \/ S.selected_actors = <<>> THEN S
    ELSE [S EXCEPT !.transforms[S.selected_actors[1]].orientation =
              [i \in 1..3 |->
                  S.transforms[S.selected_actors[1]].orientation[i]
                      + RotationDelta(d, dx, dy)[i]]]

\* handle_rotate_drag(mouse_pos); (dx, dy) is mouse_pos - rotate_start_point,
\* and rotate_start_point is moved to mouse_pos at the end of every step
handle_rotate_drag(S, d, dx, dy) ==
    IF ~d.is_rotating_object \/ S.selected_actors = <<>> THEN S
    ELSE SetOrientation(S, S.selected_actors[1],
              [i \in 1..3 |->
                  S.transforms[S.selected_actors[1]].orientation[i]
                      + RotationDelta(d, dx, dy)[i]])

\* Camera angles are in hundred-thousandths of a radian, the radius in
\* thousandths of a world unit; pi is taken as 3.14159.
Pi == 314159

\* math.radians(45.0)
InitialAngle == 78540

\* lower clamp of camera_theta (0.01); the upper one is Pi - ThetaMargin
ThetaMargin == 1000

\* orbit sensitivity, 0.008 radians per pixel
OrbitSensitivity == 800

InitialRadius == 15000

MinRadius == 100

MaxRadius == 1000000

\* wheel notches turned in one go: one, and enough to cross the whole range
WheelNotches == {1, 60}

\* displacements of the pointer since the previous move, in pixels
OrbitDisplacements == {-1000, -50, 50, 1000}

InitialCamera ==
    [theta |-> InitialAngle, phi |-> InitialAngle, radius |-> InitialRadius,
     pivot |-> "origin"]

Min(a, b) == IF a <= b THEN a ELSE b

\* the azimuth less a change, not wrapped
OrbitAzimuthNoWrap(phi, change) == phi - change

\* camera_phi -= change; camera_phi = camera_phi % (2 * math.pi)
OrbitAzimuth(phi, change) == (phi - change) % (2 * Pi)

\* mouseMoveEvent, middle button without Shift: orbit that does not clamp
orbit_no_clamp(c, dx, dy) ==
    [c EXCEPT !.phi = OrbitAzimuth(c.phi, dx * OrbitSensitivity),
              !.theta = c.theta - dy * OrbitSensitivity]

\* mouseMoveEvent, middle button without Shift: regular rotation
orbit(c, dx, dy) ==
    [c EXCEPT !.phi = OrbitAzimuth(c.phi, dx * OrbitSensitivity),
              !.theta = Max(ThetaMargin,
                            Min(Pi - ThetaMargin,
                                c.theta - dy * OrbitSensitivity))]

\* mouseMoveEvent, middle button with Shift: the pivot leaves its place
pan(c, dx, dy) ==
    IF dx = 0 /\ dy = 0 THEN c ELSE [c EXCEPT !.pivot = "panned"]

\* wheelEvent whose radius is not clamped
wheel_no_clamp(c, zoom_in) ==
    [c EXCEPT !.radius =
        IF zoom_in THEN (c.radius * 10) \div 11
        ELSE (c.radius * 11) \div 10]

\* wheelEvent: the radius is divided or multiplied by 1.1 and clamped
wheel(c, zoom_in) ==
    [c EXCEPT !.radius =
        Max(MinRadius,
            Min(MaxRadius,
                IF zoom_in THEN (c.radius * 10) \div 11
                ELSE (c.radius * 11) \div 10))]

\* reset_view()
reset_view(c) == InitialCamera

\* handle_release with no point placed: it only clears the drag and arm flags
handle_release_flags(m) ==
    IF m.is_active
    THEN [m EXCEPT !.is_dragging_new_point = FALSE, !.dragging_point = {}]
    ELSE m

----------------------------------------------------------------------------
(* State after construction of the main window *)

Init ==
    /\ actors = <<>>
    /\ kinds = <<>>
    /\ opacity = <<>>
    /\ selected_actors = <<>>
    /\ outline_actors = {}
    /\ outline_visible = {}
    /\ gizmo = [g \in GizmoNames |-> HiddenGizmo]
    /\ active_gizmo = "None"
    /\ transforms = <<>>
    /\ gizmo_position = [g \in GizmoNames |-> <<0, 0, 0>>]
    /\ current_tool = "select"
    /\ drag = NoDrag
    /\ buttons = [left |-> FALSE, middle |-> FALSE]
    /\ updates_paused = FALSE
    /\ transform_widget = EmptyFields
    /\ measurement_tool =
           [is_active |-> FALSE, measurement_mode |-> "None", points |-> <<>>,
            actors |-> <<>>, dragging_point |-> {},
            is_dragging_new_point |-> FALSE]
    /\ scene_items = {}
    /\ gizmo_calls = 0
    /\ drag_steps = 0
    /\ camera = InitialCamera
    /\ pick_query = NoQuery
    /\ last = NoCall

\* actors that exist, registered or not
Created == 1..Len(kinds)

----------------------------------------------------------------------------
(* Host events *)

\* ObjectCreationPanel / LightPanel / camera menu: create one object
CreateObject(kind) ==
    /\ ~buttons.left
    /\ Len(kinds) < MaxObjs
    /\ kind = KindOf(Len(kinds) + 1)
    /\ Apply(create_object(Cur, kind))
    /\ Log(Call("create", {Len(kinds) + 1}, FALSE, kind))
    /\ UNCHANGED <<controller, others>>

\* LightPanel: create a sun light
CreateSunLight ==
    /\ ~buttons.left
    /\ Len(kinds) < MaxObjs
    /\ Apply(create_sun_light(Cur))
    /\ Log(Call("create", {Len(kinds) + 1}, FALSE, "sun"))
    /\ UNCHANGED <<controller, others>>

\* LeftToolbar.set_tool(tool_name): a click on the button of another tool
SetTool(tool_name) ==
    /\ ~buttons.left
    /\ tool_name # current_tool
    /\ current_tool' = tool_name
    /\ measurement_tool' = on_tool_changed_measure(measurement_tool, tool_name)
    /\ Apply(on_tool_changed(Cur, tool_name))
    /\ Log(Call("on_tool_changed", {}, FALSE, tool_name))
    /\ UNCHANGED <<drag, buttons, updates_paused, transform_widget, others>>

\* mousePressEvent with the left button, under every tool but Measure
LeftPress(pick, shift, size_ok) ==
    /\ ~buttons.left
    /\ current_tool # "measure"
    /\ pick \in PressPicks(Cur)
    /\ buttons' = [buttons EXCEPT !.left = TRUE]
    /\ Apply(PressRegistry(Cur, current_tool, pick, shift, size_ok))
    /\ drag' = PressDrag(Cur, drag, current_tool, pick, size_ok)
    /\ updates_paused' =
           IF current_tool = "scale" /\ ScaleStarts(Cur, pick, size_ok)
           THEN TRUE ELSE updates_paused
    /\ Log(Call("mousePress", pick.actor, shift /\ current_tool = "select",
                current_tool))
    /\ UNCHANGED <<current_tool, transform_widget, measurement_tool, others>>

\* mouseMoveEvent while a scale handle is dragged with the left button
ScaleDrag(dx) ==
    /\ drag.is_scaling /\ buttons.left
    /\ drag_steps < MaxDragSteps
    /\ \A i \in 1..3 : ScaledExactly(drag.original_scale[i], dx)
    /\ drag_steps' = drag_steps + 1
    /\ Apply(handle_scale_drag(Cur, drag, dx))
    /\ Log(Call("handle_scale_drag", {}, FALSE, drag.scale_axis))
    /\ UNCHANGED <<controller, scene_items, gizmo_calls, camera, pick_query>>

\* TRUE when move_object(actor, delta) gives a camera a focal point of whole
\* hundredths; always TRUE for an actor that is no camera
MovesExactly(S, actor, delta) ==
    \A cam \in S.transforms[actor].camera_object :
        ExactDirection(Minus(cam.focal_point,
                             Plus(S.transforms[actor].position, delta)))

\* a call of ObjectManager.move_object
MoveObject(actor, delta) ==
    /\ actor \in Created
    /\ drag_steps < MaxDragSteps
    /\ MovesExactly(Cur, actor, delta)
    /\ drag_steps' = drag_steps + 1
    /\ Apply(move_object(Cur, actor, delta))
    /\ Log(Call("move_object", {actor}, FALSE, "None"))
    /\ UNCHANGED <<controller, scene_items, gizmo_calls, camera, pick_query>>

\* mouseMoveEvent while an object is moved with the left button
MoveDrag(dx, dy, world_delta, size_ok) ==
    /\ ~drag.is_scaling /\ drag.is_moving /\ buttons.left
    /\ drag_steps < MaxDragSteps
    /\ selected_actors # <<>> /\ drag.move_axis # "None" =>
           MovesExactly(Cur, selected_actors[1], WorldDelta(drag, dx, dy))
    /\ drag_steps' = drag_steps + 1
    /\ Apply(handle_move_drag(Cur, drag, dx, dy, world_delta, size_ok))
    /\ Log(Call("handle_move_drag", {}, FALSE, drag.move_axis))
    /\ UNCHANGED <<controller, scene_items, gizmo_calls, camera, pick_query>>

\* mouseMoveEvent while a rotate ring is dragged with the left button
RotateDrag(dx, dy) ==
    /\ ~drag.is_scaling /\ ~drag.is_moving
    /\ drag.is_rotating_object /\ buttons.left
    /\ drag_steps < MaxDragSteps
    /\ drag_steps' = drag_steps + 1
    /\ Apply(handle_rotate_drag(Cur, drag, dx, dy))
    /\ Log(Call("handle_rotate_drag", {}, FALSE, drag.rotate_axis))
    /\ UNCHANGED <<controller, scene_items, gizmo_calls, camera, pick_query>>

\* TRUE when mouseMoveEvent reaches its branch for the middle button
ViewDragMoves ==
    /\ drag.is_rotating_view /\ buttons.middle
    /\ ~(buttons.left /\ (drag.is_scaling \/ drag.is_moving
                              \/ drag.is_rotating_object
                              \/ drag.is_box_selecting
                              \/ current_tool = "measure"))

\* mouseMoveEvent with the middle button held and no Shift
Orbit(dx, dy) ==
    /\ ViewDragMoves
    /\ drag_steps < MaxDragSteps
    /\ drag_steps' = drag_steps + 1
    /\ camera' = orbit(camera, dx, dy)
    /\ Log(Call("orbit", {}, FALSE, current_tool))
    /\ UNCHANGED <<registry, controller, scene_items, gizmo_calls,
                   pick_query>>

\* mouseMoveEvent with the middle button and Shift held
Pan(dx, dy) ==
    /\ ViewDragMoves
    /\ drag_steps < MaxDragSteps
    /\ drag_steps' = drag_steps + 1
    /\ camera' = pan(camera, dx, dy)
    /\ Log(Call("pan", {}, FALSE, current_tool))
    /\ UNCHANGED <<registry, controller, scene_items, gizmo_calls,
                   pick_query>>

\* wheelEvent

\* notches wheel events in a row, all in the same direction; once an event
\* changes nothing (the radius sits on its bound) the later ones change nothing
RECURSIVE WheelEvents(_, _, _)
WheelEvents(c, zoom_in, notches) ==
    IF notches = 0 \/ wheel(c, zoom_in) = c THEN c
    ELSE WheelEvents(wheel(c, zoom_in), zoom_in, notches - 1)

Wheel(zoom_in, notches) ==
    /\ drag_steps < MaxDragSteps
    /\ drag_steps' = drag_steps + 1
    /\ camera' = WheelEvents(camera, zoom_in, notches)
    /\ Log(Call("wheel", {}, FALSE, IF zoom_in THEN "in" ELSE "out"))
    /\ UNCHANGED <<registry, controller, scene_items, gizmo_calls,
                   pick_query>>

\* a click on the viewport gizmo, or the Home key outside a camera view
ResetView ==
    /\ camera' = reset_view(camera)
    /\ Log(Call("reset_view", {}, FALSE, current_tool))
    /\ UNCHANGED <<registry, controller, scene_items, gizmo_calls, drag_steps,
                   pick_query>>

\* update_timer: one tick of the 100 ms poll of the transform panel
PollTick ==
    /\ transform_widget' =
           update_from_selection(transform_widget, Cur, updates_paused)
    /\ Log(Call("update_from_selection", {}, FALSE, "None"))
    /\ UNCHANGED <<registry, current_tool, drag, buttons, updates_paused,
                   measurement_tool, others>>

\* mouseReleaseEvent with the left button
LeftRelease ==
    /\ buttons.left
    /\ buttons' = [buttons EXCEPT !.left = FALSE]
    /\ drag' = ReleaseDrag(drag)
    /\ updates_paused' = IF drag.is_scaling THEN FALSE ELSE updates_paused
    /\ transform_widget' =
           IF drag.is_scaling
           THEN update_from_selection(transform_widget, Cur, FALSE)
           ELSE transform_widget
    /\ measurement_tool' =
           IF ReleaseDrag(drag) = drag /\ current_tool = "measure"
           THEN handle_release_flags(measurement_tool)
           ELSE measurement_tool
    /\ Log(Call("mouseRelease", {}, FALSE, current_tool))
    /\ UNCHANGED <<registry, current_tool, others>>

\* mouseReleaseEvent with the left button at the end of a box selection;
\* inside is the set of registered objects within the dragged rectangle
BoxRelease(inside) ==
    /\ buttons.left
    /\ drag.is_box_selecting
    /\ ~drag.is_scaling /\ ~drag.is_moving /\ ~drag.is_rotating_object
    /\ inside \subseteq Range(actors)
    /\ buttons' = [buttons EXCEPT !.left = FALSE]
    /\ drag' = ReleaseDrag(drag)
    /\ Apply(end_box_selection(Cur, inside))
    /\ Log(Call("end_box_selection", inside, FALSE, current_tool))
    /\ UNCHANGED <<current_tool, updates_paused, transform_widget,
                   measurement_tool, others>>

\* mousePressEvent with the middle button
MiddlePress ==
    /\ ~buttons.middle
    /\ buttons' = [buttons EXCEPT !.middle = TRUE]
    /\ drag' = [drag EXCEPT !.is_rotating_view = TRUE]
    /\ Log(Call("middlePress", {}, FALSE, current_tool))
    /\ UNCHANGED <<registry, current_tool, updates_paused, transform_widget, measurement_tool,
                   others>>

\* mouseReleaseEvent with the middle button
MiddleRelease ==
    /\ buttons.middle
    /\ buttons' = [buttons EXCEPT !.middle = FALSE]
    /\ drag' = [drag EXCEPT !.is_rotating_view = FALSE]
    /\ Log(Call("middleRelease", {}, FALSE, current_tool))
    /\ UNCHANGED <<registry, current_tool, updates_paused, transform_widget, measurement_tool,
                   others>>

\* RightPanel.update_scene_list, on the 100 ms timer
UpdatePanel ==
    /\ scene_items # Range(actors)
    /\ scene_items' = Range(actors)
    /\ UNCHANGED <<registry, controller, gizmo_calls, drag_steps, camera,
                   pick_query, last>>

\* RightPanel.select_object_from_scene(actor): a click on a scene list row
SelectFromScene(actor) ==
    /\ ~buttons.left
    /\ actor \in scene_items
    /\ Apply(select_object(deselect_all(Cur), actor, FALSE))
    /\ Log(Call("select_object_from_scene", {actor}, FALSE, "None"))
    /\ UNCHANGED <<controller, others>>

----------------------------------------------------------------------------
(* Registry operations called directly *)

SelectObject(actor, multi_select) ==
    /\ ~buttons.left
    /\ actor \in Created
    /\ Apply(select_object(Cur, actor, multi_select))
    /\ Log(Call("select_object", {actor}, multi_select, "None"))
    /\ UNCHANGED <<controller, others>>

DeselectObject(actor) ==
    /\ ~buttons.left
    /\ actor \in Created
    /\ Apply(deselect_object(Cur, actor))
    /\ Log(Call("deselect_object", {actor}, FALSE, "None"))
    /\ UNCHANGED <<controller, others>>

DeselectAll ==
    /\ ~buttons.left
    /\ Apply(deselect_all(Cur))
    /\ Log(Call("deselect_all", {}, FALSE, "None"))
    /\ UNCHANGED <<controller, others>>

ClearObjects ==
    /\ ~buttons.left
    /\ Apply(clear_objects(Cur))
    /\ Log(Call("clear_objects", {}, FALSE, "None"))
    /\ UNCHANGED <<controller, others>>

\* MoveGizmo / RotateGizmo / ScaleGizmo .show(target_actor) called directly
ShowGizmo(g, target) ==
    /\ target \in Created
    /\ gizmo_calls < MaxGizmoCalls
    /\ gizmo_calls' = gizmo_calls + 1
    /\ Apply(GizmoShow(Cur, g, target))
    /\ Log(Call("show", {target}, FALSE, g))
    /\ UNCHANGED <<controller, scene_items, drag_steps, camera, pick_query>>

\* MoveGizmo / RotateGizmo / ScaleGizmo .hide() called directly
HideGizmo(g) ==
    /\ gizmo_calls < MaxGizmoCalls
    /\ gizmo_calls' = gizmo_calls + 1
    /\ Apply(GizmoHide(Cur, g))
    /\ Log(Call("hide", {}, FALSE, g))
    /\ UNCHANGED <<controller, scene_items, drag_steps, camera, pick_query>>

----------------------------------------------------------------------------
(* Measurement tool *)

PositionName(position) ==
    IF position = Origin THEN "Origin"
    ELSE IF position = NearOrigin THEN "NearOrigin"
    ELSE "Far"

\* what get_world_position_from_mouse can return: a position or None
WorldPos == {{x} : x \in WorldPositions} \cup {{}}

WorldPosName(world_pos) ==
    IF world_pos = {} THEN "None"
    ELSE PositionName(CHOOSE x \in world_pos : TRUE)

\* one call of get_world_position_from_mouse, by a caller with the pointer
\* at a widget position; the free move returns before the call when the
\* renderer has no size
GetWorldPosition(q, caller, mouse) ==
    /\ caller = "free_move" => q.size_ok
    /\ pick_query' =
           [size_ok |-> q.size_ok, pick_pos |-> q.pick_pos,
            dot_DN |-> q.dot_DN, t |-> q.t,
            intersection_point |-> q.intersection_point,
            fallback_point |-> q.fallback_point,
            result |-> WorldPosition(q), done |-> TRUE,
            caller |-> caller, mouse |-> mouse,
            display |-> IF q.size_ok
                        THEN DisplayPoint(CallerArguments(caller, mouse))
                        ELSE NoQuery.display]
    /\ Log(Call("get_world_position_from_mouse", {}, FALSE,
                WorldPosName(WorldPosition(q))))
    /\ UNCHANGED <<registry, controller, scene_items, gizmo_calls, drag_steps,
                   camera>>

\* mousePressEvent with the left button under the Measure tool
MeasurePress(position, size_ok, pick) ==
    LET world_pos == get_world_position_from_mouse(position, size_ok)
    IN  /\ ~buttons.left
        /\ current_tool = "measure"
        /\ pick \in Picks(Cur)
        /\ buttons' = [buttons EXCEPT !.left = TRUE]
        /\ measurement_tool' = handle_click(measurement_tool, world_pos)
        /\ Apply(IF handle_click_handled(measurement_tool, world_pos)
                 THEN Cur
                 ELSE handle_object_selection(Cur, pick, FALSE, size_ok))
        /\ Log(Call("handle_click", {}, FALSE, WorldPosName(world_pos)))
        /\ UNCHANGED <<current_tool, drag, updates_paused, transform_widget, others>>

\* mouseMoveEvent with the left button held under the Measure tool
MeasureMove(position, size_ok) ==
    LET world_pos == get_world_position_from_mouse(position, size_ok)
    IN  /\ buttons.left
        /\ current_tool = "measure"
        /\ ~drag.is_scaling /\ ~drag.is_moving /\ ~drag.is_rotating_object
        /\ ~drag.is_box_selecting
        /\ measurement_tool' = handle_drag(measurement_tool, world_pos)
        /\ Log(Call("handle_drag", {}, FALSE, WorldPosName(world_pos)))
        /\ UNCHANGED <<registry, current_tool, drag, buttons, updates_paused, transform_widget,
                       others>>

\* mouseReleaseEvent with the left button under the Measure tool
MeasureRelease(position, size_ok) ==
    LET world_pos == get_world_position_from_mouse(position, size_ok)
    IN  /\ buttons.left
        /\ current_tool = "measure"
        /\ ReleaseDrag(drag) = drag
        /\ buttons' = [buttons EXCEPT !.left = FALSE]
        /\ measurement_tool' = handle_release(measurement_tool, world_pos)
        /\ Log(Call("handle_release", {}, FALSE, WorldPosName(world_pos)))
        /\ UNCHANGED <<registry, current_tool, drag, updates_paused, transform_widget, others>>

\* MeasurementTool.activate() called directly
Activate ==
    /\ measurement_tool' = activate(measurement_tool)
    /\ Log(Call("activate", {}, FALSE, "None"))
    /\ UNCHANGED <<registry, current_tool, drag, buttons, updates_paused, transform_widget,
                   others>>

\* MeasurementTool.deactivate() called directly
Deactivate ==
    /\ measurement_tool' = deactivate(measurement_tool)
    /\ Log(Call("deactivate", {}, FALSE, "None"))
    /\ UNCHANGED <<registry, current_tool, drag, buttons, updates_paused, transform_widget,
                   others>>

\* MeasurementTool.handle_click called directly
HandleClick(world_pos) ==
    /\ measurement_tool' = handle_click(measurement_tool, world_pos)
    /\ Log(Call("handle_click", {}, FALSE, WorldPosName(world_pos)))
    /\ UNCHANGED <<registry, current_tool, drag, buttons, updates_paused, transform_widget,
                   others>>

\* MeasurementTool.handle_drag called directly
HandleDrag(world_pos) ==
    /\ measurement_tool' = handle_drag(measurement_tool, world_pos)
    /\ Log(Call("handle_drag", {}, FALSE, WorldPosName(world_pos)))
    /\ UNCHANGED <<registry, current_tool, drag, buttons, updates_paused, transform_widget,
                   others>>

\* MeasurementTool.handle_release called directly
HandleRelease(world_pos) ==
    /\ measurement_tool' = handle_release(measurement_tool, world_pos)
    /\ Log(Call("handle_release", {}, FALSE, WorldPosName(world_pos)))
    /\ UNCHANGED <<registry, current_tool, drag, buttons, updates_paused, transform_widget,
                   others>>

----------------------------------------------------------------------------
(* Spec: the editor as its user interface drives it.                       *)

Next ==
    \/ \E k \in Kinds : CreateObject(k)
    \/ \E t \in Tools : SetTool(t)
    \/ \E p \in Picks(Cur), shift \in BOOLEAN, size_ok \in BOOLEAN :
           LeftPress(p, shift, size_ok)
    \/ LeftRelease
    \/ MiddlePress
    \/ MiddleRelease
    \/ UpdatePanel
    \/ \E a \in Objs : SelectFromScene(a)

Spec == Init /\ [][Next]_vars

(* SpecRegistry: the operations of the ObjectManager called in any order,  *)
(* with any actor that exists, between tool changes.                       *)

NextRegistry ==
    \/ \E k \in Kinds : CreateObject(k)
    \/ \E t \in RegistryTools : SetTool(t)
    \/ \E a \in Objs, m \in BOOLEAN : SelectObject(a, m)
    \/ DeselectAll

SpecRegistry == Init /\ [][NextRegistry]_vars

(* SpecStale: the same operations with clear_objects, so that a caller can  *)
(* hold an actor the registry no longer has.                               *)

NextStale ==
    \/ \E k \in Kinds : CreateObject(k)
    \/ \E t \in Tools : SetTool(t)
    \/ \E a \in Objs, m \in BOOLEAN : SelectObject(a, m)
    \/ \E a \in Objs : DeselectObject(a)
    \/ DeselectAll
    \/ ClearObjects

SpecStale == Init /\ [][NextStale]_vars

(* SpecGizmo: show and hide of the three gizmos called in any order on the  *)
(* actors of the scene.                                                    *)

NextGizmo ==
    \/ \E k \in Kinds : CreateObject(k)
    \/ \E g \in GizmoNames, a \in Objs : ShowGizmo(g, a)
    \/ \E g \in GizmoNames : HideGizmo(g)

SpecGizmo == Init /\ [][NextGizmo]_vars

(* SpecMeasureUI: tool changes and the pointer under the Measure tool.      *)

NextMeasureUI ==
    \/ \E t \in Tools : SetTool(t)
    \/ \E x \in WorldPositions, size_ok \in BOOLEAN, p \in Picks(Cur) :
           MeasurePress(x, size_ok, p)
    \/ \E x \in WorldPositions, size_ok \in BOOLEAN : MeasureMove(x, size_ok)
    \/ \E x \in WorldPositions, size_ok \in BOOLEAN : MeasureRelease(x, size_ok)

SpecMeasureUI == Init /\ [][NextMeasureUI]_vars

(* SpecMeasure: the operations of the MeasurementTool called in any order. *)

NextMeasure ==
    \/ Activate
    \/ Deactivate
    \/ \E w \in WorldPos : HandleClick(w)
    \/ \E w \in WorldPos : HandleDrag(w)
    \/ \E w \in WorldPos : HandleRelease(w)

SpecMeasure == Init /\ [][NextMeasure]_vars

\* Pointer drags on the scale handles of the selection, under the Scale tool.
NextScale ==
    \/ \E k \in Kinds : CreateObject(k)
    \/ SetTool("scale")
    \/ \E p \in Picks(Cur), shift \in BOOLEAN, size_ok \in BOOLEAN :
           LeftPress(p, shift, size_ok)
    \/ LeftRelease
    \/ \E dx \in ScaleDisplacements : ScaleDrag(dx)

SpecScale == Init /\ [][NextScale]_vars

\* Pointer drags on the rotate rings of the selection, under the Rotate tool.
NextRotate ==
    \/ \E k \in Kinds : CreateObject(k)
    \/ SetTool("rotate")
    \/ \E p \in Picks(Cur), shift \in BOOLEAN, size_ok \in BOOLEAN :
           LeftPress(p, shift, size_ok)
    \/ LeftRelease
    \/ \E dx \in RotateDisplacements, dy \in RotateDisplacements :
           RotateDrag(dx, dy)

SpecRotate == Init /\ [][NextRotate]_vars

\* Camera navigation: orbit and pan with the middle button, wheel, reset.
NextCamera ==
    \/ MiddlePress
    \/ MiddleRelease
    \/ \E dx \in OrbitDisplacements, dy \in OrbitDisplacements : Orbit(dx, dy)
    \/ \E dx \in OrbitDisplacements, dy \in OrbitDisplacements : Pan(dx, dy)
    \/ \E zoom_in \in BOOLEAN, notches \in WheelNotches : Wheel(zoom_in, notches)
    \/ ResetView

SpecCamera == Init /\ [][NextCamera]_vars

\* Pointer drags that move the selection, under the Move tool.
NextMove ==
    \/ \E k \in Kinds : CreateObject(k)
    \/ SetTool("move")
    \/ \E p \in Picks(Cur), shift \in BOOLEAN, size_ok \in BOOLEAN :
           LeftPress(p, shift, size_ok)
    \/ LeftRelease
    \/ \E dx \in MoveDisplacements, dy \in MoveDisplacements,
          world_delta \in FreeMoveDeltas, size_ok \in BOOLEAN :
           MoveDrag(dx, dy, world_delta, size_ok)

SpecMove == Init /\ [][NextMove]_vars

\* Direct calls of move_object, with tool changes that show the gizmos.
NextMoveObject ==
    \/ \E k \in Kinds : CreateObject(k)
    \/ \E t \in Tools : SetTool(t)
    \/ \E a \in Objs, delta \in ObjectDeltas : MoveObject(a, delta)

SpecMoveObject == Init /\ [][NextMoveObject]_vars

(* SpecPanel: the scale drag with the poll of the transform panel. *)
NextPanel ==
    \/ \E k \in Kinds : CreateObject(k)
    \/ SetTool("scale")
    \/ \E p \in Picks(Cur) : LeftPress(p, FALSE, TRUE)
    \/ LeftRelease
    \/ ScaleDrag(50)
    \/ PollTick

SpecPanel == Init /\ [][NextPanel]_vars

(* SpecPress: left presses under every tool but Measure, on every pick,   *)
(* a handle in front of an object included.                               *)
PressTools == Tools \ {"measure"}

NextPress ==
    \/ \E k \in Kinds : CreateObject(k)
    \/ \E t \in PressTools : SetTool(t)
    \/ \E p \in PressPicks(Cur), shift \in BOOLEAN, size_ok \in BOOLEAN :
           LeftPress(p, shift, size_ok)
    \/ LeftRelease

SpecPress == Init /\ [][NextPress]_vars

(* SpecBox: clicks under Select and rubber bands under Box Select.        *)
BoxTools == {"select", "box_select"}

NextBox ==
    \/ \E k \in Kinds : CreateObject(k)
    \/ \E t \in BoxTools : SetTool(t)
    \/ \E p \in Picks(Cur), shift \in BOOLEAN : LeftPress(p, shift, TRUE)
    \/ LeftRelease
    \/ \E inside \in SUBSET Range(actors) : BoxRelease(inside)

SpecBox == Init /\ [][NextBox]_vars

(* SpecPointer: get_world_position_from_mouse called for a measurement    *)
(* click and for a free move, with the pointer anywhere in the widget.    *)

\* queries that differ in what the picker returns only
PointerQueries ==
    {q \in PickQueries : /\ q.dot_DN = 20 /\ q.t = 1
                         /\ q.intersection_point = Origin
                         /\ q.fallback_point = Origin}

NextPointer ==
    \E q \in PointerQueries, caller \in Callers, mouse \in MousePositions :
        GetWorldPosition(q, caller, mouse)

SpecPointer == Init /\ [][NextPointer]_vars

(* SpecOutline: creation of every kind, a sun light included, and selection. *)
NextOutline ==
    \/ \E k \in Kinds : CreateObject(k)
    \/ CreateSunLight
    \/ \E t \in Tools : SetTool(t)
    \/ \E a \in Objs : SelectObject(a, FALSE)

SpecOutline == Init /\ [][NextOutline]_vars

\* Calls of get_world_position_from_mouse on every combination of its inputs.
NextPick == \E q \in PickQueries : GetWorldPosition(q, "measure", <<0, 0>>)

SpecPick == Init /\ [][NextPick]_vars

----------------------------------------------------------------------------
(* Properties *)

Registered == Range(actors)

VisibleGizmos == {g \in GizmoNames : gizmo[g].is_visible}

AllHidden == VisibleGizmos = {}

\* every actor has the opacity it was created with
NothingDimmed == \A o \in Created : opacity[o] = InitialOpacity(kinds[o])

\* C1: from any state, select_object(A, False) then select_object(B, False)
\* on registered actors leaves the selection equal to [B], the outline of A
\* hidden and the outline of B visible.
C1_SingleSelectReplaces ==
    \A A \in Registered, B \in Registered :
        LET T == select_object(select_object(Cur, A, FALSE), B, FALSE)
        IN  /\ T.selected_actors = <<B>>
            /\ A # B => A \notin T.outline_visible
            /\ B \in T.outline_visible

C1_Witness ==
    /\ last = Call("select_object", {2}, FALSE, "None")
    /\ 1 \in Registered /\ 2 \in Registered
    /\ selected_actors = <<2>>
    /\ outline_visible = {2}
    /\ active_gizmo = "move"

\* C2: from any state (any tool, any selection), select_object(O) then
\* deselect_all() on a registered actor O leaves the selection empty and the
\* outline of O hidden.
C2_SelectThenDeselectAll ==
    \A O \in Registered, m \in BOOLEAN :
        LET T == deselect_all(select_object(Cur, O, m))
        IN  /\ T.selected_actors = <<>>
            /\ ~Contains(T.selected_actors, O)
            /\ O \notin T.outline_visible

C2_Witness ==
    /\ last = Call("deselect_all", {}, FALSE, "None")
    /\ Registered # {}
    /\ selected_actors = <<>>
    /\ outline_visible = {}
    /\ active_gizmo = "rotate"

C4_SelectionRegistered ==
    /\ \A i \in 1..Len(selected_actors) : selected_actors[i] \in Registered
    /\ NoDuplicates(selected_actors)

\* C5: select_object and deselect_object with an actor that is not in the
\* registry's actor list change nothing.
C5_StaleCallsAreNoOps ==
    \A a \in Created \ Registered, m \in BOOLEAN :
        /\ select_object(Cur, a, m) = Cur
        /\ deselect_object(Cur, a) = Cur

\* C6: with no gizmo shown, show(target) then hide() of any of the three
\* gizmos leaves the target with the opacity it had before show.
C6_ShowHideRestores ==
    AllHidden =>
        \A g \in GizmoNames, t \in Created :
            GizmoHide(GizmoShow(Cur, g, t), g).opacity[t] = opacity[t]

C6_Witness ==
    /\ last = Call("hide", {}, FALSE, "rotate")
    /\ gizmo_calls = 2
    /\ AllHidden
    /\ 2 \in Created
    /\ kinds[2] = "camera"
    /\ opacity[2] = CameraOpacity

\* C7: whenever the three gizmos are hidden, every actor has the opacity it
\* had before it was first dimmed.
C7_HiddenMeansUndimmed == AllHidden => NothingDimmed

\* C8: at most one of the three gizmos is visible.
C8_AtMostOneGizmo == Cardinality(VisibleGizmos) <= 1

C8_Witness ==
    /\ last = Call("on_tool_changed", {}, FALSE, "scale")
    /\ VisibleGizmos = {"scale"}
    /\ gizmo["scale"].selected_actor = {2}
    /\ selected_actors = <<2, 1>>

\* the state is the result of a tool change or of a selection
AfterToolChangeOrSelection ==
    /\ active_gizmo # "None"
    /\ last.op \in {"on_tool_changed", "select_object", "create",
                    "select_object_from_scene"}

\* C9: after a tool change and after a selection made under that tool, the
\* registry's active tool is the current tool; with a gizmo tool and a
\* non-empty selection exactly that tool's gizmo is visible, on the first
\* selected actor; otherwise no gizmo is visible.
C9_GizmoFollowsTool ==
    AfterToolChangeOrSelection =>
        /\ active_gizmo = current_tool
        /\ IF current_tool \in GizmoNames /\ selected_actors # <<>>
           THEN /\ VisibleGizmos = {current_tool}
                /\ gizmo[current_tool].selected_actor = {selected_actors[1]}
           ELSE AllHidden

\* the state is the result of a deselection
AfterDeselect ==
    \/ last.op \in {"deselect_object", "deselect_all"}
    \/ /\ last.op = "select_object" /\ last.multi
       /\ last.actor \cap Range(selected_actors) = {}

\* C10: after deselect_object, the toggle-off of select_object or
\* deselect_all, no visible gizmo has a target that is not selected; with an
\* empty selection no gizmo is visible and no actor is dimmed.
C10_DeselectHidesGizmos ==
    AfterDeselect =>
        /\ \A g \in VisibleGizmos : gizmo[g].selected_actor \subseteq Range(selected_actors)
        /\ selected_actors = <<>> => AllHidden /\ NothingDimmed

\* C11: after clear_objects the registry holds no actor, no outline and no
\* selection entry, and the three gizmos are hidden with no target.
C11_ClearHidesGizmos ==
    last.op = "clear_objects" =>
        /\ actors = <<>>
        /\ outline_actors = {}
        /\ selected_actors = <<>>
        /\ AllHidden
        /\ \A g \in GizmoNames : gizmo[g].selected_actor = {}

\* C12: after a tool change the measurement tool is active exactly when the
\* current tool is Measure, and after a change to Measure it has no point,
\* no marker and no drag or arm flag.
C12_ToolChangeSetsMeasure ==
    last.op = "on_tool_changed" =>
        /\ measurement_tool.is_active <=> current_tool = "measure"
        /\ current_tool = "measure" =>
               /\ measurement_tool.points = <<>>
               /\ measurement_tool.actors = <<>>
               /\ measurement_tool.dragging_point = {}
               /\ ~measurement_tool.is_dragging_new_point

\* a change away from Measure made with a finished measurement on screen
C12_Witness ==
    /\ last = Call("on_tool_changed", {}, FALSE, "move")
    /\ ~measurement_tool.is_active
    /\ Len(measurement_tool.points) = 2

\* C13: deactivate() from an active state leaves no point and no marker
\* and the tool inactive.
C13_DeactivateDiscards ==
    measurement_tool.is_active =>
        LET d == deactivate(measurement_tool)
        IN  /\ ~d.is_active
            /\ d.points = <<>>
            /\ d.actors = <<>>

\* C14: the measurement tool never holds more than two points.
C14_AtMostTwoPoints == Len(measurement_tool.points) \in 0..2

\* a click made with two points placed has started the next measurement
C14_Witness ==
    /\ last = Call("handle_click", {}, FALSE, "Far")
    /\ measurement_tool.points = <<Far>>
    /\ measurement_tool.is_dragging_new_point
    /\ Len(measurement_tool.actors) = 1

\* C15 as stated: with two points placed, a click anywhere leaves exactly
\* the clicked position as the only point and its sphere as the only marker.
C15_AnyClickRestarts ==
    (measurement_tool.is_active /\ Len(measurement_tool.points) = 2) =>
        \A x \in WorldPositions :
            LET r == handle_click(measurement_tool, {x})
            IN  /\ r.points = <<x>>
                /\ r.actors = <<Marker("sphere", x, x, {}, FALSE)>>

\* C15 as amended: with two points placed, a click farther than the
\* tolerance from both points leaves exactly the clicked position as the only
\* point and its sphere as the only marker; a click within the tolerance of a
\* point keeps both points and every marker and starts the drag of the
\* first such point.
C15_FarClickRestarts ==
    (measurement_tool.is_active /\ Len(measurement_tool.points) = 2) =>
        \A x \in WorldPositions :
            LET r == handle_click(measurement_tool, {x})
                near == {i \in 1..2 :
                           Dist2(measurement_tool.points[i], x)
                               < Tolerance * Tolerance}
            IN  IF near = {}
                THEN /\ r.points = <<x>>
                     /\ r.actors = <<Marker("sphere", x, x, {}, FALSE)>>
                ELSE /\ r.points = measurement_tool.points
                     /\ r.actors = measurement_tool.actors
                     /\ \E i \in near : /\ r.dragging_point = {i - 1}
                                        /\ \A j \in near : i <= j

\* two points placed, with a position far from both and one near the first
C15_Witness ==
    /\ measurement_tool.is_active
    /\ measurement_tool.points = <<Origin, NearOrigin>>
    /\ Len(measurement_tool.actors) >= 4

\* C16: handle_release on an active tool places the second point exactly
\* when the tool is armed with one point, and always leaves dragging_point
\* unset and the arm flag cleared, also when the pointer gives no position.
C16_ReleaseClearsFlags ==
    measurement_tool.is_active =>
        \A w \in WorldPos :
            LET r == handle_release(measurement_tool, w)
                armed == /\ measurement_tool.is_dragging_new_point
                         /\ Len(measurement_tool.points) = 1
            IN  /\ r.dragging_point = {}
                /\ ~r.is_dragging_new_point
                /\ armed => Len(r.points) = 2
                /\ ~armed => r.points = measurement_tool.points

\* the permanent distance labels among the markers
DistanceLabels ==
    {i \in 1..Len(measurement_tool.actors) :
        /\ measurement_tool.actors[i].kind = "text"
        /\ ~measurement_tool.actors[i].is_temporary}

\* n is the distance whose square is d2, in hundredths, rounded to the nearest
IsRoundedRoot(n, d2) ==
    /\ n >= 0
    /\ n = 0 \/ (2 * n - 1) * (2 * n - 1) <= 400 * d2
    /\ 400 * d2 < (2 * n + 1) * (2 * n + 1)

\* C17: with two points placed there is one distance label and it shows the
\* Euclidean distance of the two points to two decimals; the distance text is
\* symmetric, zero for equal points and 5.00 for (0,0,0) and (3,4,0).
C17_LabelIsDistance ==
    /\ Len(measurement_tool.points) = 2 =>
           LET a == measurement_tool.points[1]
               b == measurement_tool.points[2]
               d2 == (a[1] - b[1]) * (a[1] - b[1]) + (a[2] - b[2]) * (a[2] - b[2])
                         + (a[3] - b[3]) * (a[3] - b[3])
           IN  /\ Cardinality(DistanceLabels) = 1
               /\ \A i \in DistanceLabels :
                      \E n \in measurement_tool.actors[i].text :
                          IsRoundedRoot(n, d2)
    /\ \A a \in WorldPositions, b \in WorldPositions :
           /\ DistanceText(a, b) = DistanceText(b, a)
           /\ DistanceText(a, a) = 0
    /\ DistanceText(Origin, Far) = 500

\* an existing point has been dragged away and the label redrawn
C17_Witness ==
    /\ last = Call("handle_drag", {}, FALSE, "Far")
    /\ measurement_tool.points = <<Far, NearOrigin>>
    /\ measurement_tool.dragging_point = {0}
    /\ ~measurement_tool.is_dragging_new_point


\* C18: after every step of a Scale drag, on any handle and for any horizontal
\* displacement since the press, every scale component of the dragged object
\* is at least the floor 0.1.
C18_ScaleFloor ==
    last.op = "handle_scale_drag" =>
        \A i \in 1..3 : transforms[selected_actors[1]].scale[i] >= ScaleFloor

\* a drag of the x handle far to the left has stopped the x component at the
\* floor and left the other two alone
C18_Witness ==
    /\ last = Call("handle_scale_drag", {}, FALSE, "x")
    /\ drag.is_scaling
    /\ transforms[selected_actors[1]].scale =
           <<ScaleFloor, DefaultScale, DefaultScale>>
    /\ transforms[selected_actors[1]].outline_scale =
           <<ScaleFloor, DefaultScale, DefaultScale>>


\* C19: every step of a Rotate drag leaves the outline with the orientation set
\* on the dragged object, and adds the pointer displacement since the previous
\* step times 0.5 degrees to exactly one Euler component, the vertical
\* displacement for the x ring and the horizontal one for the y and z rings,
\* leaving the other two components unchanged.
C19_RotateStep ==
    (drag.is_rotating_object /\ ~drag.is_scaling /\ ~drag.is_moving
        /\ buttons.left) =>
        \A dx \in RotateDisplacements, dy \in RotateDisplacements :
            LET a == selected_actors[1]
                T == handle_rotate_drag(Cur, drag, dx, dy)
                i == IF drag.rotate_axis = "x" THEN 1
                     ELSE IF drag.rotate_axis = "y" THEN 2 ELSE 3
                delta == IF drag.rotate_axis = "x" THEN dy ELSE dx
            IN  /\ T.transforms[a].orientation =
                       [transforms[a].orientation EXCEPT ![i] = @ + delta]
                /\ T.transforms[a].outline_orientation =
                       T.transforms[a].orientation

\* two steps on the x ring, 3 pixels up and 4 pixels down, have turned the
\* object and its outline by half a degree about x
C19_Witness ==
    /\ last = Call("handle_rotate_drag", {}, FALSE, "x")
    /\ drag.is_rotating_object /\ buttons.left
    /\ transforms[selected_actors[1]].orientation = <<1, 0, 0>>
    /\ transforms[selected_actors[1]].outline_orientation = <<1, 0, 0>>


\* C20: after any sequence of orbit, pan, dolly and reset operations, whatever
\* the pointer displacements, the camera polar angle is within the clamp
\* interval [0.01, pi - 0.01], hence strictly between 0 and pi.
C20_PolarAngleInRange ==
    /\ camera.theta >= ThetaMargin
    /\ camera.theta <= Pi - ThetaMargin
    /\ 0 < camera.theta /\ camera.theta < Pi

\* an orbit step of 1000 pixels has stopped the polar angle at a clamp bound
C20_Witness ==
    /\ last.op = "orbit"
    /\ camera.theta \in {ThetaMargin, Pi - ThetaMargin}


\* C21: the camera azimuth is within one full turn [0, 2 pi) after an orbit,
\* and a change of the azimuth by exactly one full turn, in either direction,
\* gives back the azimuth it started from.
C21_AzimuthWrapped ==
    /\ 0 <= camera.phi /\ camera.phi < 2 * Pi
    /\ OrbitAzimuth(camera.phi, 2 * Pi) = camera.phi
    /\ OrbitAzimuth(camera.phi, -(2 * Pi)) = camera.phi

\* an orbit step of 1000 pixels to the right has taken the azimuth from 45
\* degrees through zero twice
C21_Witness ==
    /\ last.op = "orbit"
    /\ camera.phi = InitialAngle - 1000 * OrbitSensitivity + 2 * (2 * Pi)


ActiveDragModes ==
    {f \in {"is_moving", "is_rotating_object", "is_scaling",
            "is_box_selecting", "is_rotating_view"} : drag[f]}

\* C24: in every reachable state at most one of the drag modes is_moving,
\* is_rotating_object, is_scaling, is_box_selecting and is_rotating_view is
\* active, for any interleaving of button presses, releases and tool changes.
C24_OneDragMode == Cardinality(ActiveDragModes) <= 1


\* C26: move_object(O, d) sets O's position to its previous position plus d,
\* sets the position of O's outline to the new position, puts the handles of
\* every visible gizmo on O at the new position, and changes the position of
\* no other object.
C26_MoveObject ==
    \A a \in Created, delta \in ObjectDeltas :
        MovesExactly(Cur, a, delta) =>
            LET T == move_object(Cur, a, delta)
                new_pos == Plus(transforms[a].position, delta)
            IN  /\ T.transforms[a].position = new_pos
                /\ a \in T.outline_actors =>
                       T.transforms[a].outline_position = new_pos
                /\ \A g \in GizmoNames :
                       (T.gizmo[g].is_visible /\ T.gizmo[g].selected_actor = {a})
                           => T.gizmo_position[g] = new_pos
                /\ \A b \in Created \ {a} :
                       T.transforms[b].position = transforms[b].position

\* u and v point the same way
SameDirection(u, v) ==
    /\ u[2] * v[3] - u[3] * v[2] = 0
    /\ u[3] * v[1] - u[1] * v[3] = 0
    /\ u[1] * v[2] - u[2] * v[1] = 0
    /\ u[1] * v[1] + u[2] * v[2] + u[3] * v[3] > 0

\* C27: move_object on a camera keeps its view direction: the direction from
\* the new position to the new focal point is the direction from the old
\* position to the old focal point, and the new focal point lies the
\* look-ahead distance 10 from the new position.
C27_CameraKeepsDirection ==
    \A a \in Created, delta \in ObjectDeltas :
        MovesExactly(Cur, a, delta) =>
            \A before \in transforms[a].camera_object :
                \A after \in move_object(Cur, a, delta).transforms[a].camera_object :
                    /\ after.position = Plus(transforms[a].position, delta)
                    /\ SameDirection(Minus(after.focal_point, after.position),
                                     Minus(before.focal_point, before.position))
                    /\ Norm2(Minus(after.focal_point, after.position))
                           = LookAhead * LookAhead


\* C28: in every reachable state, for every registered object, its outline is
\* visible if and only if the object is in the selection.
C28_OutlineIffSelected ==
    \A a \in Range(actors) :
        (a \in outline_actors /\ a \in outline_visible)
            <=> Contains(selected_actors, a)

C28_Witness ==
    /\ last = Call("select_object", {1}, TRUE, "None")
    /\ 1 \in Registered /\ 2 \in Registered
    /\ 1 \in outline_actors /\ 1 \notin outline_visible
    /\ selected_actors = <<2>>
    /\ 2 \in outline_visible

\* C29: in every reachable state, the outline of every object has the
\* position, the orientation and the scale of the object it belongs to.
C29_OutlineFollowsObject ==
    \A a \in outline_actors :
        /\ transforms[a].outline_position = transforms[a].position
        /\ transforms[a].outline_orientation = transforms[a].orientation
        /\ transforms[a].outline_scale = transforms[a].scale

\* C30: a wheel event divides (zoom in) or multiplies (zoom out) the radius
\* by 1.1 and clamps it, so the radius is within [0.1, 1000] in every state;
\* a wheel event leaves the polar angle, the azimuth and the pivot unchanged.
C30_WheelClampsRadius ==
    /\ camera.radius >= MinRadius /\ camera.radius <= MaxRadius
    /\ \A zoom_in \in BOOLEAN :
          LET after == wheel(camera, zoom_in)
              exact == IF zoom_in THEN (camera.radius * 10) \div 11
                       ELSE (camera.radius * 11) \div 10
          IN  /\ after.theta = camera.theta
              /\ after.phi = camera.phi
              /\ after.pivot = camera.pivot
              /\ exact \in MinRadius..MaxRadius => after.radius = exact
              /\ exact < MinRadius => after.radius = MinRadius
              /\ exact > MaxRadius => after.radius = MaxRadius

C30_Witness ==
    /\ last = Call("wheel", {}, FALSE, "out")
    /\ camera.radius = MaxRadius
    /\ camera.pivot = "panned"

\* C25: the poll of the transform panel is paused exactly while a scale drag
\* is in progress; a poll tick while paused changes no displayed field; the
\* release that ends the drag resumes the poll and brings the fields up to
\* date once.
C25_PausedWhileScaling ==
    /\ [](updates_paused <=> drag.is_scaling)
    /\ [][(last'.op = "update_from_selection" /\ updates_paused)
              => transform_widget' = transform_widget]_vars
    /\ [][(drag.is_scaling /\ ~drag'.is_scaling)
              => (last'.op = "mouseRelease" /\ ~updates_paused')]_vars

C25_Witness ==
    /\ last.op = "update_from_selection"
    /\ updates_paused /\ drag.is_scaling
    /\ selected_actors # <<>>
    /\ transform_widget # FieldsOf(Cur, selected_actors[1])

\* the markers that are not part of a preview
Committed(m) == SelectSeq(m.actors, LAMBDA x : ~x.is_temporary)

\* C31: on an active tool with no point, a click places the clicked position
\* as the only point, with its sphere, and arms the second point; while the
\* tool is armed with one point, a drag leaves that point the only one and
\* the tool armed, and adds no committed marker.
C31_ClickThenPreview ==
    /\ (measurement_tool.is_active /\ measurement_tool.points = <<>>) =>
           \A x \in WorldPositions :
               LET r == handle_click(measurement_tool, {x})
               IN  /\ r.points = <<x>>
                   /\ r.actors[Len(r.actors)] = Marker("sphere", x, x, {}, FALSE)
                   /\ Len(r.actors) = Len(measurement_tool.actors) + 1
                   /\ r.is_dragging_new_point
    /\ (/\ measurement_tool.is_active
        /\ measurement_tool.is_dragging_new_point
        /\ Len(measurement_tool.points) = 1) =>
           \A w \in WorldPos :
               LET r == handle_drag(measurement_tool, w)
               IN  /\ r.points = measurement_tool.points
                   /\ r.is_dragging_new_point
                   /\ Committed(r) = Committed(measurement_tool)

\* a drag on the armed tool has drawn the preview to the pointer
C31_Witness ==
    /\ last = Call("handle_drag", {}, FALSE, "Far")
    /\ measurement_tool.is_active
    /\ measurement_tool.is_dragging_new_point
    /\ measurement_tool.points = <<Origin>>
    /\ \E i \in 1..Len(measurement_tool.actors) :
           measurement_tool.actors[i] = Marker("line", Origin, Far, {}, TRUE)

\* the markers of one kind
MarkersOf(m, kind) == {i \in 1..Len(m.actors) : m.actors[i].kind = kind}

\* C32: the release that ends a drag-to-place measurement leaves exactly two
\* spheres, one line and one distance label, and no preview line or label.
C32_ReleaseLeavesCommitted ==
    (/\ measurement_tool.is_active
     /\ measurement_tool.is_dragging_new_point
     /\ Len(measurement_tool.points) = 1) =>
        \A x \in WorldPositions :
            LET r == handle_release(measurement_tool, {x})
            IN  /\ Cardinality(MarkersOf(r, "sphere")) = 2
                /\ Cardinality(MarkersOf(r, "line")) = 1
                /\ Cardinality(MarkersOf(r, "text")) = 1
                /\ \A i \in 1..Len(r.actors) : ~r.actors[i].is_temporary

\* C33: a drag step on an existing marker writes the pointer position to
\* that point, the sphere of the point is then at that position, and the line
\* and the label connect the two current points.
C33_DragMovesMarker ==
    (/\ measurement_tool.is_active
     /\ ~measurement_tool.is_dragging_new_point
     /\ Len(measurement_tool.points) = 2) =>
        \A i \in measurement_tool.dragging_point, x \in WorldPositions :
            i + 1 <= Len(measurement_tool.points) =>
                LET r == handle_drag(measurement_tool, {x})
                IN  /\ r.points[i + 1] = x
                    /\ \A j \in 1..2 : j # i + 1 =>
                           r.points[j] = measurement_tool.points[j]
                    /\ {r.actors[k].a : k \in MarkersOf(r, "sphere")}
                           = Range(r.points)
                    /\ \A k \in MarkersOf(r, "line") \cup MarkersOf(r, "text") :
                           /\ r.actors[k].a = r.points[1]
                           /\ r.actors[k].b = r.points[2]
                    /\ Cardinality(MarkersOf(r, "line")) = 1
                    /\ Cardinality(MarkersOf(r, "text")) = 1

\* C40: whenever dragging_point is set and the tool is not armed for a new
\* point, dragging_point is an index of the point list.
C40_DraggingPointValid ==
    ~measurement_tool.is_dragging_new_point =>
        \A i \in measurement_tool.dragging_point :
            i >= 0 /\ i < Len(measurement_tool.points)

C36_FlipAppliedOnce ==
    (pick_query.done /\ pick_query.size_ok) =>
        pick_query.display =
            <<pick_query.mouse[1], RendererHeight - pick_query.mouse[2]>>

\* C35: in a free move every drag step puts the moved object at its own
\* position at the press plus the displacement of the world point under the
\* pointer since the press, so a step without displacement leaves it where
\* it was; also when several objects are selected and the press lands on a
\* selected object that is not the primary one.
C35_FreeMoveFromOwnStart ==
    (current_tool = "move" /\ ~buttons.left /\ selected_actors # <<>>) =>
        \A pick \in Picks(Cur), world_delta \in FreeMoveDeltas :
            LET d == PressDrag(Cur, drag, "move", pick, TRUE)
                pressed == PressRegistry(Cur, "move", pick, FALSE, TRUE)
                moved == selected_actors[1]
                after == handle_move_drag(pressed, d, 0, 0, world_delta, TRUE)
            IN  (d.is_moving /\ d.move_axis = "None") =>
                    after.transforms[moved].position =
                        Plus(transforms[moved].position, world_delta)

\* C37: after every step of a move drag, along an axis or free, the
\* CameraObject of a camera is at the position of its actor and the light of
\* a light icon is at the position of its icon.
C37_PayloadsFollowActor ==
    last.op = "handle_move_drag" =>
        \A a \in Range(actors) :
            /\ \A cam \in transforms[a].camera_object :
                   cam.position = transforms[a].position
            /\ \A p \in transforms[a].light_position :
                   p = transforms[a].position

\* the handle of the tool's own gizmo that a press hits, "None" without one
HandleHit(tool, pick) ==
    IF tool \in GizmoNames THEN get_axis_at_position(Cur, tool, pick)
    ELSE "None"

\* the drag flags after a press that starts the drag of handle h
GizmoDragStarted(d, tool, h) ==
    IF tool = "move" THEN d.is_moving /\ d.move_axis = h
    ELSE IF tool = "rotate" THEN d.is_rotating_object /\ d.rotate_axis = h
    ELSE d.is_scaling /\ d.scale_axis = h

\* the three cases of the dispatch, in order, for one press
DispatchedInOrder(tool, pick, shift, size_ok) ==
    LET after == PressRegistry(Cur, tool, pick, shift, size_ok)
        d == PressDrag(Cur, drag, tool, pick, size_ok)
        under == get_object_at_position(Cur, pick)
    IN  IF HandleHit(tool, pick) # "None" /\ selected_actors # <<>>
        THEN /\ GizmoDragStarted(d, tool, HandleHit(tool, pick))
             /\ after.selected_actors = selected_actors
        ELSE IF tool = "move" /\ \E a \in under : Contains(selected_actors, a)
        THEN /\ d.is_moving /\ d.move_axis = "None"
             /\ d.free_move_actor_start # {}
             /\ after.selected_actors = selected_actors
        ELSE /\ d = drag
             /\ \A a \in under : after.selected_actors = <<a>>
             /\ under = {} => after.selected_actors = <<>>

C39_BoxSelectsInside ==
    last.op = "end_box_selection" =>
        /\ ~drag.is_box_selecting
        /\ Range(selected_actors) = last.actor

====
